---- MODULE Spec2Model ----
(***************************************************************************)
(* Buyer-guide intake form: draft lifecycle, draft persistence, budget     *)
(* encoding and the submit state machine of BuyerGuideForm.tsx.            *)
(*                                                                         *)
(* JavaScript values are tagged records, so that values of different       *)
(* JavaScript types can be stored in the same field and compared.         *)
(* A string is its text together with its length in characters.           *)
(***************************************************************************)
EXTENDS Integers, Sequences, FiniteSets, TLC

\* ------------------------------------------------------------------ bounds
MaxEdits == 1
MaxSubmits == 2

\* ------------------------------------------------------- JavaScript values
Str(t, n) == [kind |-> "string", text |-> t, len |-> n]
Bool(b) == [kind |-> "boolean", b |-> b]
Num(n) == [kind |-> "number", n |-> n]
Arr(items) == [kind |-> "array", items |-> items]
Obj(props) == [kind |-> "object", props |-> props]
Null == [kind |-> "null"]
Undefined == [kind |-> "undefined"]

EmptyStr == Str("", 0)

\* JavaScript truthiness of a value (used by `a || b`).
Truthy(v) ==
  CASE v.kind = "undefined" -> FALSE
    [] v.kind = "null" -> FALSE
    [] v.kind = "string" -> v.len > 0
    [] v.kind = "boolean" -> v.b
    [] v.kind = "number" -> v.n # 0
    [] OTHER -> TRUE

\* a || b
JsOr(a, b) == IF Truthy(a) THEN a ELSE b

\* obj[key] of a JavaScript object held as a function from keys to values.
Get(props, key) == IF key \in DOMAIN props THEN props[key] ELSE Undefined

\* ------------------------------------------------------ program constants
STORAGE_KEY == "buyer-guide-form-draft"
InsightsMin == 200
InsightsMax == 1200
CurrentHomeMax == 300
TargetAreaSpecificMax == 100
CommuteDestinationMax == 100
AutosaveDelayMs == 5000

budgetSteps ==
  << 250000, 275000, 300000, 325000, 350000, 375000, 400000, 425000, 450000, 475000,
     500000, 525000, 550000, 575000, 600000, 625000, 650000, 675000, 700000, 725000,
     750000, 775000, 800000, 825000, 850000, 875000, 900000, 925000, 950000, 975000, 1000000,
     1050000, 1100000, 1150000, 1200000, 1250000, 1300000, 1350000, 1400000, 1450000, 1500000,
     1550000, 1600000, 1650000, 1700000, 1750000, 1800000, 1850000, 1900000, 1950000, 2000000,
     2100000, 2200000, 2300000, 2400000, 2500000, 2600000, 2700000, 2800000, 2900000, 3000000,
     3100000, 3200000, 3300000, 3400000, 3500000, 3600000, 3700000, 3800000, 3900000, 4000000,
     4100000, 4200000, 4300000, 4400000, 4500000, 4600000, 4700000, 4800000, 4900000, 5000000,
     5250000, 5500000, 5750000, 6000000, 6250000, 6500000, 6750000, 7000000, 7250000, 7500000,
     7750000, 8000000, 8250000, 8500000, 8750000, 9000000, 9250000, 9500000, 9750000, 10000000 >>

\* budgetSteps[i] with JavaScript's zero-based indexing: undefined when the
\* index is not a position of the array.
StepAt(v) ==
  IF v.kind = "number" /\ v.n \in 0..(Len(budgetSteps) - 1)
  THEN Num(budgetSteps[v.n + 1])
  ELSE Undefined

defaultValues ==
  [ agentEmail |-> EmptyStr,
    buyerName |-> EmptyStr,
    buyerSituation |-> Str("first-time", 10),
    currentHome |-> EmptyStr,
    targetAreaPrimary |-> Str("New Hampshire Seacoast", 22),
    targetAreaSpecific |-> EmptyStr,
    commuteDestination |-> EmptyStr,
    budgetRange |-> Arr(<<Num(10), Num(38)>>),
    timeline |-> Str("3-6", 3),
    bedrooms |-> Str("3", 1),
    bathrooms |-> Str("2", 1),
    propertyTypes |-> Arr(<<Str("single-family", 13)>>),
    topPriority |-> EmptyStr,
    workSituation |-> Str("hybrid", 6),
    hasChildren |-> Bool(FALSE),
    lifestyleFocus |-> Str("suburban", 8),
    agentInsights |-> EmptyStr ]

FieldNames == DOMAIN defaultValues

\* f overlaid by g: g's keys win, f's other keys are kept.
Overlay(f, g) == [k \in (DOMAIN f) \cup (DOMAIN g) |-> IF k \in DOMAIN g THEN g[k] ELSE f[k]]

\* ------------------------------------------------------------- formSchema
\* The modelled strings that match zod's e-mail pattern.
EmailShaped == {"agent@dustonleddy.com", "other@dustonleddy.com"}

IsString(v) == v.kind = "string"

\* Mutant: the minimum length is exclusive.
StringMin_Exclusive(v, n) == IsString(v) /\ v.len > n

StringMin(v, n) == IsString(v) /\ v.len >= n
StringMax(v, n) == IsString(v) /\ v.len <= n
OptionalStringMax(v, n) == v.kind = "undefined" \/ StringMax(v, n)
IsArrayOf(v, itemKind) == v.kind = "array" /\ \A i \in DOMAIN v.items : v.items[i].kind = itemKind

\* Whether value v passes the schema of field key.
FieldOk(key, v) ==
  CASE key = "agentEmail" -> IsString(v) /\ v.text \in EmailShaped
    [] key = "currentHome" -> OptionalStringMax(v, CurrentHomeMax)
    [] key = "targetAreaSpecific" -> OptionalStringMax(v, TargetAreaSpecificMax)
    [] key = "commuteDestination" -> OptionalStringMax(v, CommuteDestinationMax)
    [] key = "budgetRange" -> IsArrayOf(v, "number") /\ Len(v.items) = 2
    [] key = "propertyTypes" -> IsArrayOf(v, "string") /\ Len(v.items) >= 1
    [] key = "hasChildren" -> v.kind = "boolean"
    [] key = "agentInsights" -> StringMin(v, InsightsMin) /\ StringMax(v, InsightsMax)
    [] OTHER -> StringMin(v, 1)

\* The fields of values that violate the schema (all are collected).
SchemaErrors(values) == {key \in FieldNames : ~FieldOk(key, Get(values, key))}

\* The parsed output of the schema: the schema's keys only.
SchemaParse(values) ==
  [key \in {k \in FieldNames : Get(values, k).kind # "undefined"} |-> values[key]]

\* ------------------------------------------------------------------- JSON
\* A stored string is either text that JSON.parse rejects, or the JSON text
\* of a value.
RawText(t, n) == [kind |-> "raw", text |-> t, len |-> n]
JsonText(v) == [kind |-> "json", value |-> v]
\* localStorage.getItem returns null when there is no entry.
NoEntry == [kind |-> "none"]

JsonItem(v) == IF v.kind = "undefined" THEN Null ELSE v
JsonValue(v) ==
  IF v.kind = "array" THEN Arr([i \in DOMAIN v.items |-> JsonItem(v.items[i])]) ELSE v

\* JSON.stringify of an object: properties whose value is undefined are
\* dropped, undefined array items become null.
Stringify(props) ==
  JsonText(Obj([key \in {k \in DOMAIN props : props[k].kind # "undefined"} |-> JsonValue(props[key])]))

\* Whether the string is truthy (`if (saved)`).
SavedTruthy(saved) ==
  CASE saved.kind = "none" -> FALSE
    [] saved.kind = "raw" -> saved.len > 0
    [] OTHER -> TRUE

\* Whether JSON.parse(saved) or Object.keys(parsed) throws.
LoadThrows(saved) ==
  \/ saved.kind = "raw"
  \/ saved.kind = "json" /\ saved.value.kind \in {"null", "undefined"}

\* The own enumerable properties of the parsed value (objects; numbers and
\* booleans have none).
ParsedProps(parsed) == IF parsed.kind = "object" THEN parsed.props ELSE << >>

\* Mutant: the load effect without the skip of the old targetArea key.
KeyApplied_LegacyApplied(key, value) ==
  IF key = "budgetRange"
  THEN value.kind = "array" /\ Len(value.items) = 2
  ELSE TRUE

\* Mutant: the load effect checks Array.isArray only.
KeyApplied_AnyArray(key, value) ==
  IF key = "budgetRange"
  THEN value.kind = "array"
  ELSE key # "targetArea"

\* Whether the load effect calls setValue for this key of the parsed object.
KeyApplied(key, value) ==
  IF key = "budgetRange"
  THEN value.kind = "array" /\ Len(value.items) = 2
  ELSE key # "targetArea"

\* The form values after the forEach of the load effect.
Rehydrate(values, parsed) ==
  LET props == ParsedProps(parsed)
      applied == {k \in DOMAIN props : KeyApplied(k, props[k])}
  IN  Overlay(values, [k \in applied |-> props[k]])

\* ------------------------------------------------------------ model inputs
\* A draft with every required field filled in, as an earlier session of the
\* form would have saved it.
FilledDraft ==
  [defaultValues EXCEPT !.agentEmail = Str("agent@dustonleddy.com", 21),
                        !.buyerName = Str("Sarah", 5),
                        !.topPriority = Str("schools", 7),
                        !.agentInsights = Str("insights", InsightsMin)]

\* What localStorage can hold under STORAGE_KEY when the component mounts.
StoredValues ==
  { NoEntry,
    RawText("", 0),
    RawText("{oops", 5),
    JsonText(Null),
    JsonText(Obj(FilledDraft)),
    JsonText(Obj([FilledDraft EXCEPT !.agentInsights = Str("insights", InsightsMax + 1)])),
    JsonText(Obj([FilledDraft EXCEPT !.propertyTypes = Arr(<< >>)])),
    JsonText(Obj([FilledDraft EXCEPT !.budgetRange = Arr(<<Null, Null>>)])),
    JsonText(Obj([FilledDraft EXCEPT !.budgetRange = Arr(<<Num(10), Num(Len(budgetSteps))>>)])),
    JsonText(Obj([ budgetRange |-> Arr(<<Num(38), Num(10)>>) ])),
    JsonText(Obj([ budgetRange |-> Arr(<<Num(10)>>),
                   buyerName |-> Str("Sarah", 5),
                   hasChildren |-> Bool(TRUE),
                   targetArea |-> Str("Portsmouth", 10) ])),
    JsonText(Obj([ budgetRange |-> Str("10-38", 5),
                   buyerName |-> Str("Sarah", 5),
                   bedrooms |-> Str("4", 1) ])) }

\* What the user types into the text inputs.
TypedText ==
  [ agentEmail |-> {Str("other@dustonleddy.com", 21), Str("agent@", 6)},
    buyerName |-> {EmptyStr},
    agentInsights |-> {Str("insights", InsightsMin - 1), Str("insights", InsightsMax)} ]

\* The maxLength attribute of the text inputs that have one.
MaxLengthAttr ==
  [ currentHome |-> CurrentHomeMax,
    targetAreaSpecific |-> TargetAreaSpecificMax,
    commuteDestination |-> CommuteDestinationMax,
    agentInsights |-> InsightsMax ]

\* The options the user picks in the selects and button groups.
PickedOption ==
  [ buyerSituation |-> {Str("relocating", 10)},
    topPriority |-> {Str("schools", 7)} ]

\* The property-type cards the user clicks.
ClickedTypes == { Str("single-family", 13), Str("condo", 5) }

\* Slider positions the user drags the thumbs to.
SliderStops == {38, Len(budgetSteps) - 1}

\* The responses of the webhook: a 2xx status, another status, or no response
\* at all (fetch rejects).
Responses == {"2xx", "non-2xx", "network-error"}

\* ------------------------------------------------------------------ state
VARIABLES
  mounted,         \* whether BuyerGuideForm has mounted
  form,            \* the values held by useForm
  isSubmitting,    \* useState
  isSuccess,       \* useState
  submittedEmail,  \* useState
  storage,         \* localStorage's entry under STORAGE_KEY
  timers,          \* pending auto-save timeouts: snapshot and ms remaining
  toast,           \* variant of the last toast shown
  calls,           \* log of the invocations of onSubmit
  requests,        \* log of the requests handed to fetch
  lastSubmit,      \* the last handleSubmit: the values it saw, whether it passed
  edits,           \* number of field changes made by the user
  loaded,          \* what the load effect read from localStorage
  sinceChange,     \* ms since the last field change (since mount before one)
  cleared          \* a submit has succeeded and no field has changed since

vars == << mounted, form, isSubmitting, isSuccess, submittedEmail, storage, timers,
           toast, calls, requests, lastSubmit, edits, loaded, sinceChange, cleared >>

Init ==
  /\ mounted = FALSE
  /\ form = defaultValues
  /\ isSubmitting = FALSE
  /\ isSuccess = FALSE
  /\ submittedEmail = EmptyStr
  /\ storage \in StoredValues
  /\ timers = {}
  /\ toast = "none"
  /\ calls = << >>
  /\ requests = << >>
  /\ lastSubmit = [kind |-> "none"]
  /\ edits = 0
  /\ loaded = [kind |-> "unread"]
  /\ sinceChange = 0
  /\ cleared = FALSE

\* Mutant: the auto-save effect without its cleanup.
AutoSaveEffect_NoCleanup(pending, watchedValues) ==
  pending \cup {[snapshot |-> watchedValues, remaining |-> AutosaveDelayMs]}

\* The auto-save effect of a render: the cleanup of the previous render's
\* effect clears its timeout, then a new timeout is set that captures the
\* rendered values.
AutoSaveEffect(pending, watchedValues) ==
  {[snapshot |-> watchedValues, remaining |-> AutosaveDelayMs]}

\* Mutant: the catch block of the load effect without removeItem.
LoadStorage_Kept(saved) == saved

\* The storage after the load effect has run on saved.
LoadStorage(saved) == IF SavedTruthy(saved) /\ LoadThrows(saved) THEN NoEntry ELSE saved

\* The form values after the load effect has run on saved.
LoadForm(values, saved) ==
  IF SavedTruthy(saved) /\ ~LoadThrows(saved) THEN Rehydrate(values, saved.value) ELSE values

\* First render and its effects: load from localStorage, start auto-save.
Mount ==
  /\ ~mounted
  /\ mounted' = TRUE
  /\ form' = LoadForm(form, storage)
  /\ storage' = LoadStorage(storage)
  /\ timers' = AutoSaveEffect(timers, form')
  /\ loaded' = storage
  /\ sinceChange' = 0
  /\ UNCHANGED << isSubmitting, isSuccess, submittedEmail, toast, calls, requests,
                  lastSubmit, edits, cleared >>

\* The form is on screen (the success card replaces it).
FormShown == mounted /\ ~isSuccess

\* field.onChange / register's onChange followed by the re-render.
Change(key, value) ==
  /\ FormShown
  /\ edits < MaxEdits
  /\ form' = [form EXCEPT ![key] = value]
  /\ edits' = edits + 1
  /\ timers' = AutoSaveEffect(timers, form')
  /\ sinceChange' = 0
  /\ cleared' = FALSE
  /\ UNCHANGED << mounted, isSubmitting, isSuccess, submittedEmail, storage, toast,
                  calls, requests, lastSubmit, loaded >>

\* Typing into a text input or textarea.
UpdateText ==
  \E key \in DOMAIN TypedText : \E value \in TypedText[key] :
    /\ key \in DOMAIN MaxLengthAttr => value.len <= MaxLengthAttr[key]
    /\ value # form[key]
    /\ Change(key, value)

\* Picking an option of a select or of a button group.
PickOption ==
  \E key \in DOMAIN PickedOption : \E value \in PickedOption[key] :
    /\ value # form[key]
    /\ Change(key, value)

\* The slider's props.
SliderMin == 0
SliderMax == Len(budgetSteps) - 1
MinStepsBetweenThumbs == 1

\* The two values of the slider in ascending order.
SortedPair(a, b) == IF a.n <= b.n THEN <<a, b>> ELSE <<b, a>>

\* Dragging one thumb of the slider: the thumb takes a position between the
\* slider's min and max, the pair is sorted, and the change is dropped when
\* the thumbs come closer than minStepsBetweenThumbs or nothing changes.
SlideBudget ==
  \E thumb \in {1, 2} : \E stop \in SliderStops :
    /\ FieldOk("budgetRange", form.budgetRange)
    /\ stop \in SliderMin..SliderMax
    /\ LET other == form.budgetRange.items[3 - thumb]
           next == SortedPair(Num(stop), other)
       IN  /\ next[2].n - next[1].n >= MinStepsBetweenThumbs
           /\ Arr(next) # form.budgetRange
           /\ Change("budgetRange", Arr(next))

\* The value a property-type card passes to field.onChange when clicked.
ToggledTypes(items, option) ==
  LET isSelected == \E i \in DOMAIN items : items[i] = option
      newValue == IF isSelected
                  THEN SelectSeq(items, LAMBDA v : v # option)
                  ELSE Append(items, option)
  IN  IF Len(newValue) > 0 THEN newValue ELSE <<option>>

\* Clicking a property-type card.
TogglePropertyType ==
  \E option \in ClickedTypes :
    /\ FieldOk("propertyTypes", form.propertyTypes)
    /\ Change("propertyTypes", Arr(ToggledTypes(form.propertyTypes.items, option)))

\* Mutant: minBudget and maxBudget read through each other's index.
Payload_Swapped(data) ==
  [ brokerage_slug |-> Str("duston-leddy", 12),
    intake_pin |-> Str("847293", 6),
    agent_email |-> Get(data, "agentEmail"),
    buyer_name |-> Get(data, "buyerName"),
    buyer_situation |-> Get(data, "buyerSituation"),
    current_home |-> JsOr(Get(data, "currentHome"), EmptyStr),
    primary_search_area |-> Get(data, "targetAreaPrimary"),
    specific_location_notes |-> JsOr(Get(data, "targetAreaSpecific"), EmptyStr),
    commute_destination |-> JsOr(Get(data, "commuteDestination"), EmptyStr),
    budget_min |-> StepAt(data.budgetRange.items[2]),
    budget_max |-> StepAt(data.budgetRange.items[1]),
    timeline |-> Get(data, "timeline"),
    bedrooms |-> Get(data, "bedrooms"),
    bathrooms |-> Get(data, "bathrooms"),
    property_types |-> Get(data, "propertyTypes"),
    top_priority |-> Get(data, "topPriority"),
    work_situation |-> Get(data, "workSituation"),
    has_children |-> Get(data, "hasChildren"),
    lifestyle_focus |-> Get(data, "lifestyleFocus"),
    agent_insights |-> Get(data, "agentInsights") ]

\* Mutant: both budget values are looked up with the lower index.
Payload_SameIndex(data) ==
  [ brokerage_slug |-> Str("duston-leddy", 12),
    intake_pin |-> Str("847293", 6),
    agent_email |-> Get(data, "agentEmail"),
    buyer_name |-> Get(data, "buyerName"),
    buyer_situation |-> Get(data, "buyerSituation"),
    current_home |-> JsOr(Get(data, "currentHome"), EmptyStr),
    primary_search_area |-> Get(data, "targetAreaPrimary"),
    specific_location_notes |-> JsOr(Get(data, "targetAreaSpecific"), EmptyStr),
    commute_destination |-> JsOr(Get(data, "commuteDestination"), EmptyStr),
    budget_min |-> StepAt(data.budgetRange.items[1]),
    budget_max |-> StepAt(data.budgetRange.items[1]),
    timeline |-> Get(data, "timeline"),
    bedrooms |-> Get(data, "bedrooms"),
    bathrooms |-> Get(data, "bathrooms"),
    property_types |-> Get(data, "propertyTypes"),
    top_priority |-> Get(data, "topPriority"),
    work_situation |-> Get(data, "workSituation"),
    has_children |-> Get(data, "hasChildren"),
    lifestyle_focus |-> Get(data, "lifestyleFocus"),
    agent_insights |-> Get(data, "agentInsights") ]

\* The payload object onSubmit builds from the validated data.
Payload(data) ==
  [ brokerage_slug |-> Str("duston-leddy", 12),
    intake_pin |-> Str("847293", 6),
    agent_email |-> Get(data, "agentEmail"),
    buyer_name |-> Get(data, "buyerName"),
    buyer_situation |-> Get(data, "buyerSituation"),
    current_home |-> JsOr(Get(data, "currentHome"), EmptyStr),
    primary_search_area |-> Get(data, "targetAreaPrimary"),
    specific_location_notes |-> JsOr(Get(data, "targetAreaSpecific"), EmptyStr),
    commute_destination |-> JsOr(Get(data, "commuteDestination"), EmptyStr),
    budget_min |-> StepAt(data.budgetRange.items[1]),
    budget_max |-> StepAt(data.budgetRange.items[2]),
    timeline |-> Get(data, "timeline"),
    bedrooms |-> Get(data, "bedrooms"),
    bathrooms |-> Get(data, "bathrooms"),
    property_types |-> Get(data, "propertyTypes"),
    top_priority |-> Get(data, "topPriority"),
    work_situation |-> Get(data, "workSituation"),
    has_children |-> Get(data, "hasChildren"),
    lifestyle_focus |-> Get(data, "lifestyleFocus"),
    agent_insights |-> Get(data, "agentInsights") ]

\* The requests after onSubmit's call of fetch for invocation call.
Fetch(sent, call, payload) == Append(sent, [call |-> call, body |-> Stringify(payload)])

\* Mutant: the success card is given the buyer's name.
EmailToShow_BuyerName(data, values) == data.buyerName

\* The e-mail address onSubmit keeps for the success card.
EmailToShow(data, values) == data.agentEmail

\* Mutant: the submit button without its disabled attribute.
CanSubmit_NeverDisabled == FormShown

\* The submit button is enabled.
CanSubmit == FormShown /\ ~isSubmitting

\* handleSubmit when the resolver reports errors: onSubmit is not called,
\* the errors are rendered.
SubmitInvalid ==
  /\ CanSubmit
  /\ SchemaErrors(form) # {}
  /\ lastSubmit' = [kind |-> "handleSubmit", values |-> form, passed |-> FALSE]
  /\ timers' = AutoSaveEffect(timers, form)
  /\ UNCHANGED << mounted, form, isSubmitting, isSuccess, submittedEmail, storage, toast,
                  calls, requests, edits, loaded, sinceChange, cleared >>

\* handleSubmit when the resolver passes: onSubmit runs up to its await.
SubmitValid ==
  /\ CanSubmit
  /\ Len(calls) < MaxSubmits
  /\ SchemaErrors(form) = {}
  /\ LET data == SchemaParse(form)
     IN  /\ isSubmitting' = TRUE
         /\ submittedEmail' = EmailToShow(data, form)
         /\ calls' = Append(calls, [values |-> form, data |-> data, outcome |-> "awaiting"])
         /\ requests' = Fetch(requests, Len(calls) + 1, Payload(data))
  /\ lastSubmit' = [kind |-> "handleSubmit", values |-> form, passed |-> TRUE]
  /\ timers' = AutoSaveEffect(timers, form)
  /\ UNCHANGED << mounted, form, isSuccess, storage, toast, edits, loaded, sinceChange, cleared >>

\* The invocations of onSubmit suspended at `await fetch`.
Awaiting == {i \in DOMAIN calls : calls[i].outcome = "awaiting"}

\* Mutant: the success branch without reset(defaultValues).
ResetValues_Kept(values) == values

\* The form values after reset(defaultValues).
ResetValues(values) == defaultValues

\* The storage entry after the success branch of onSubmit.
StorageAfterSuccess(entry) == NoEntry

\* fetch resolves with an ok response: the rest of the try block, then finally.
RespondOk ==
  \E i \in Awaiting :
    /\ calls' = [calls EXCEPT ![i].outcome = "resolved"]
    /\ storage' = StorageAfterSuccess(storage)
    /\ form' = ResetValues(form)
    /\ isSuccess' = TRUE
    /\ toast' = "default"
    /\ isSubmitting' = FALSE
    /\ timers' = AutoSaveEffect(timers, form')
    /\ cleared' = TRUE
    /\ UNCHANGED << mounted, submittedEmail, requests, lastSubmit, edits, loaded, sinceChange >>

\* Mutant: the catch block also resets the form.
ValuesAfterFailure_Reset(values) == defaultValues

\* The form values after the catch block of onSubmit.
ValuesAfterFailure(values) == values

\* Mutant: the catch block of onSubmit removes the stored draft.
StorageAfterFailure_Removed(entry) == NoEntry

\* The storage entry after the catch block of onSubmit.
StorageAfterFailure(entry) == entry

\* Mutant: onSubmit without its finally block on the failure path.
RespondFailure_NoFinally ==
  \E i \in Awaiting : \E response \in Responses \ {"2xx"} :
    /\ calls' = [calls EXCEPT ![i].outcome = response]
    /\ form' = form
    /\ toast' = "destructive"
    /\ timers' = AutoSaveEffect(timers, form')
    /\ UNCHANGED << mounted, isSubmitting, isSuccess, submittedEmail, storage, requests,
                    lastSubmit, edits, loaded, sinceChange, cleared >>

\* Mutant: the catch block sends the request once more.
RequestsAfterFailure_Retry(sent, call) == Append(sent, sent[Len(sent)])

\* The requests after the catch block of onSubmit.
RequestsAfterFailure(sent, call) == sent

\* fetch rejects, or resolves with a response that is not ok: catch, finally.
RespondFailure ==
  \E i \in Awaiting : \E response \in Responses \ {"2xx"} :
    /\ calls' = [calls EXCEPT ![i].outcome = response]
    /\ form' = ValuesAfterFailure(form)
    /\ storage' = StorageAfterFailure(storage)
    /\ requests' = RequestsAfterFailure(requests, i)
    /\ toast' = "destructive"
    /\ isSubmitting' = FALSE
    /\ timers' = AutoSaveEffect(timers, form')
    /\ UNCHANGED << mounted, isSuccess, submittedEmail, lastSubmit, edits, loaded, sinceChange,
                    cleared >>

\* Mutant: handleReset also removes the stored draft.
handleReset_RemovesDraft ==
  /\ mounted
  /\ isSuccess
  /\ isSuccess' = FALSE
  /\ submittedEmail' = EmptyStr
  /\ storage' = NoEntry
  /\ timers' = AutoSaveEffect(timers, form)
  /\ UNCHANGED << mounted, form, isSubmitting, toast, calls, requests,
                  lastSubmit, edits, loaded, sinceChange, cleared >>

\* "Generate Another Guide" on the success card.
handleReset ==
  /\ mounted
  /\ isSuccess
  /\ isSuccess' = FALSE
  /\ submittedEmail' = EmptyStr
  /\ timers' = AutoSaveEffect(timers, form)
  /\ UNCHANGED << mounted, form, isSubmitting, storage, toast, calls, requests,
                  lastSubmit, edits, loaded, sinceChange, cleared >>

\* An auto-save timeout that is due runs its callback.
AutoSave ==
  \E t \in timers :
    /\ t.remaining = 0
    /\ storage' = Stringify(t.snapshot)
    /\ timers' = timers \ {t}
    /\ UNCHANGED << mounted, form, isSubmitting, isSuccess, submittedEmail, toast,
                    calls, requests, lastSubmit, edits, loaded, sinceChange, cleared >>

\* Time passes in steps of the auto-save delay; a timeout that is due runs
\* before more time passes.
TickMs == AutosaveDelayMs

Tick ==
  /\ timers # {}
  /\ \A t \in timers : t.remaining > 0
  /\ timers' = {[t EXCEPT !.remaining = IF @ > TickMs THEN @ - TickMs ELSE 0] : t \in timers}
  /\ sinceChange' = IF sinceChange + TickMs < AutosaveDelayMs
                    THEN sinceChange + TickMs
                    ELSE AutosaveDelayMs
  /\ UNCHANGED << mounted, form, isSubmitting, isSuccess, submittedEmail, storage, toast,
                  calls, requests, lastSubmit, edits, loaded, cleared >>

Next ==
  \/ Mount
  \/ UpdateText
  \/ PickOption
  \/ SlideBudget
  \/ TogglePropertyType
  \/ SubmitInvalid
  \/ SubmitValid
  \/ RespondOk
  \/ RespondFailure
  \/ handleReset
  \/ AutoSave
  \/ Tick

Spec == Init /\ [][Next]_vars

\* The request of a pending submit eventually resolves or rejects.
SpecLive == Spec /\ WF_vars(RespondOk \/ RespondFailure)

\* The state of the submit lifecycle shown to the user.
uiState ==
  IF isSubmitting THEN "submitting"
  ELSE IF isSuccess THEN "success"
  ELSE IF toast = "destructive" THEN "error"
  ELSE "idle"

\* ------------------------------------------------------------ properties
\* Invocation i of onSubmit resumes from its await in this step with an ok
\* response.
Succeeds(i) == i \in Awaiting /\ calls'[i].outcome = "resolved"

\* Invocation i of onSubmit resumes from its await in this step with a
\* rejected fetch or a response that is not ok.
Fails(i) == i \in Awaiting /\ calls'[i].outcome \in Responses \ {"2xx"}

\* C1: when the request of a submit returns a 2xx response, the success
\* handler removes the stored draft and resets every field to its default:
\* right after it storage holds no draft and the form equals the defaults.
C1_SuccessClearsDraft ==
  [][(\E i \in DOMAIN calls : Succeeds(i)) => (storage' = NoEntry /\ form' = defaultValues)]_vars

\* A submit of a draft that differs from the defaults has succeeded: the form
\* shows the defaults and storage holds no entry.
C1_Witness ==
  /\ \E i \in DOMAIN calls : calls[i].outcome = "resolved" /\ calls[i].values # defaultValues
  /\ isSuccess
  /\ form = defaultValues
  /\ storage = NoEntry

\* C2: when the request of a submit fails (network error or a response that
\* is not 2xx), the failure path changes neither the form values nor the
\* stored draft.
C2_FailureKeepsDraft ==
  [][(\E i \in DOMAIN calls : Fails(i)) => (form' = form /\ storage' = storage)]_vars

\* A submit has failed with a non-2xx response while storage holds a draft,
\* and the form still holds the submitted values.
C2_Witness ==
  /\ \E i \in DOMAIN calls : calls[i].outcome = "non-2xx" /\ form = calls[i].values
  /\ storage.kind = "json"
  /\ form # defaultValues
  /\ ~isSubmitting

\* The requests that invocation i of onSubmit has handed to fetch.
RequestsOf(i) == {j \in DOMAIN requests : requests[j].call = i}

\* C3: each invocation of submit issues exactly one outbound request, never
\* zero once it has started and never a second one, whatever the outcome.
C3_ExactlyOneRequest ==
  \A i \in DOMAIN calls : Cardinality(RequestsOf(i)) = 1

\* One submit has failed at the transport level and a later one has
\* succeeded; each has its one request.
C3_Witness ==
  /\ \E i \in DOMAIN calls : calls[i].outcome = "network-error"
  /\ \E i \in DOMAIN calls : calls[i].outcome = "resolved"
  /\ Len(requests) = 2

\* The value the JSON body of request j carries under key.
BodyValue(j, key) == Get(requests[j].body.value.props, key)

\* C4: the payload of a request carries budget_min = table[lo] and
\* budget_max = table[hi] for the budgetRange (lo, hi) of the draft as it was
\* when submit was invoked; edits made while the request is in flight do not
\* alter it.
C4_PayloadBudget ==
  \A j \in DOMAIN requests :
    LET range == calls[requests[j].call].values.budgetRange.items
    IN  /\ BodyValue(j, "budget_min") = StepAt(range[1])
        /\ BodyValue(j, "budget_max") = StepAt(range[2])

\* A request is in flight, the budget range of the form has been changed
\* since, and the request carries the values of the range that was submitted.
C4_Witness ==
  \E j \in DOMAIN requests :
    /\ requests[j].call \in Awaiting
    /\ form.budgetRange # calls[requests[j].call].values.budgetRange
    /\ BodyValue(j, "budget_min") = Num(500000)
    /\ BodyValue(j, "budget_max") = Num(1400000)

\* The invocations of onSubmit that have succeeded.
Resolved == {i \in DOMAIN calls : calls[i].outcome = "resolved"}

\* C5: whenever the success card is shown, the e-mail address it holds is the
\* agentEmail of the draft whose submission succeeded.
C5_SuccessEmail ==
  (isSuccess /\ ~isSubmitting) =>
    /\ Resolved # {}
    /\ \A i \in Resolved : (\A k \in Resolved : k <= i) => submittedEmail = calls[i].values.agentEmail

\* The success card is shown with the address of the submitted draft, which
\* is not the address the form holds now.
C5_Witness ==
  /\ isSuccess
  /\ ~isSubmitting
  /\ submittedEmail = Str("agent@dustonleddy.com", 21)
  /\ form.agentEmail # submittedEmail

\* The transitions of the submit lifecycle the state machine lists.
ListedTransitions ==
  { <<"idle", "submitting">>, <<"submitting", "success">>, <<"submitting", "error">>,
    <<"error", "idle">>, <<"success", "idle">> }

\* A step of the submit lifecycle that makes only the transitions allowed:
\* submitting is entered at once when onSubmit is invoked, success is entered
\* only from submitting on an ok response, error only from submitting on a
\* failed request, and success is left only by handleReset.
LifecycleStep(allowed) ==
  /\ uiState' # uiState => <<uiState, uiState'>> \in allowed
  /\ Len(calls') > Len(calls) => uiState' = "submitting"
  /\ (uiState' = "submitting" /\ uiState # "submitting") => Len(calls') = Len(calls) + 1
  /\ (uiState' = "success" /\ uiState # "success") =>
       (uiState = "submitting" /\ \E i \in DOMAIN calls : Succeeds(i))
  /\ (uiState' = "error" /\ uiState # "error") =>
       (uiState = "submitting" /\ \E i \in DOMAIN calls : Fails(i))
  /\ (uiState = "success" /\ uiState' # "success") =>
       (submittedEmail' = EmptyStr /\ calls' = calls /\ form' = form /\ storage' = storage)

\* C6 as stated: the submit lifecycle only ever makes the transitions
\* idle -> submitting, submitting -> success, submitting -> error,
\* error -> idle and success -> idle.
C6_ListedTransitionsOnly == [][LifecycleStep(ListedTransitions)]_vars

\* C6 as amended: the submit lifecycle only ever makes the listed transitions
\* and error -> submitting (a resubmit after a failure starts from the error
\* state); submitting is entered at once when submit is invoked, success only
\* from submitting on a 2xx response, error only from submitting on a failed
\* request, and success is left only through reset.
C6_Lifecycle == [][LifecycleStep(ListedTransitions \cup {<<"error", "submitting">>})]_vars

\* A submit has failed, the user has submitted again and that submit has
\* succeeded.
C6_Witness ==
  /\ Len(calls) = 2
  /\ calls[1].outcome \in Responses \ {"2xx"}
  /\ calls[2].outcome = "resolved"
  /\ uiState = "success"

\* The fields the schema requires to be a non-empty string.
C7_Required ==
  { "buyerName", "buyerSituation", "targetAreaPrimary", "timeline", "bedrooms", "bathrooms",
    "topPriority", "workSituation", "lifestyleFocus" }

\* The draft violates none of the validation constraints.
C7_MeetsConstraints(values) ==
  LET v(key) == Get(values, key)
      optionalText(key, max) == v(key).kind = "undefined" \/ (v(key).kind = "string" /\ v(key).len <= max)
  IN  /\ v("agentEmail").kind = "string" /\ v("agentEmail").text \in EmailShaped
      /\ \A key \in C7_Required : v(key).kind = "string" /\ v(key).len >= 1
      /\ v("agentInsights").kind = "string"
      /\ v("agentInsights").len \in 200..1200
      /\ v("propertyTypes").kind = "array"
      /\ Len(v("propertyTypes").items) >= 1
      /\ \A i \in DOMAIN v("propertyTypes").items : v("propertyTypes").items[i].kind = "string"
      /\ v("budgetRange").kind = "array"
      /\ Len(v("budgetRange").items) = 2
      /\ \A i \in DOMAIN v("budgetRange").items : v("budgetRange").items[i].kind = "number"
      /\ v("hasChildren").kind = "boolean"
      /\ optionalText("currentHome", 300)
      /\ optionalText("targetAreaSpecific", 100)
      /\ optionalText("commuteDestination", 100)

\* C7: no request is ever issued for a draft that violates a validation
\* constraint (agentInsights of length 199 or 1201, no property type, an empty
\* required selection, a malformed e-mail, a budgetRange that is not exactly
\* two numbers), and a submit of a draft that violates none (agentInsights of
\* length 200 or 1200, a single property type) does reach the request.
C7_ValidationGate ==
  /\ \A j \in DOMAIN requests : requests[j].call \in DOMAIN calls
  /\ \A i \in DOMAIN calls : C7_MeetsConstraints(calls[i].values)
  /\ lastSubmit.kind = "handleSubmit" => (lastSubmit.passed <=> C7_MeetsConstraints(lastSubmit.values))

\* A draft with agentInsights of 200 characters and one property type was
\* sent, and the last submit, of a draft with 199 characters, was rejected.
C7_Witness ==
  /\ \E i \in DOMAIN calls :
       /\ calls[i].values.agentInsights.len = 200
       /\ Len(calls[i].values.propertyTypes.items) = 1
  /\ lastSubmit.kind = "handleSubmit"
  /\ ~lastSubmit.passed
  /\ lastSubmit.values.agentInsights.len = 199
  /\ Len(requests) = 1

\* C8: in every state of the in-memory draft, budgetRange is exactly two
\* indices lo, hi with 0 <= lo <= hi <= table.length - 1.
C8_BudgetRangeIndices ==
  LET range == form.budgetRange
  IN  /\ range.kind = "array"
      /\ Len(range.items) = 2
      /\ \A i \in DOMAIN range.items : range.items[i].kind = "number"
      /\ 0 <= range.items[1].n
      /\ range.items[1].n <= range.items[2].n
      /\ range.items[2].n <= Len(budgetSteps) - 1

\* C9: in every state of the in-memory draft, propertyTypes is non-empty.
C9_PropertyTypesNonEmpty ==
  /\ form.propertyTypes.kind = "array"
  /\ Len(form.propertyTypes.items) >= 1

\* The stored value is the JSON text of an object.
StoredObject == storage.kind = "json" /\ storage.value.kind = "object"

\* The stored draft parses and its budgetRange is not an array of length 2.
StoredRangeMalformed ==
  /\ StoredObject
  /\ "budgetRange" \in DOMAIN storage.value.props
  /\ LET range == storage.value.props.budgetRange
     IN  range.kind # "array" \/ Len(range.items) # 2

\* C10: when the stored draft parses but its budgetRange is malformed,
\* rehydration leaves budgetRange at its default, still overlays every other
\* stored field of the draft, and does not remove the stored entry.
C10_MalformedRangeSkipped ==
  [][(~mounted /\ mounted' /\ StoredRangeMalformed) =>
       /\ form'.budgetRange = defaultValues.budgetRange
       /\ \A key \in (DOMAIN storage.value.props) \ {"budgetRange", "targetArea"} :
            key \in DOMAIN form' /\ form'[key] = storage.value.props[key]
       /\ storage' = storage]_vars

\* The form has mounted on a stored draft whose budgetRange is a one-element
\* array: the stored name is in the form, the range is the default one.
C10_Witness ==
  /\ mounted
  /\ StoredRangeMalformed
  /\ storage.value.props.budgetRange.kind = "array"
  /\ form.buyerName = storage.value.props.buyerName
  /\ form.buyerName # defaultValues.buyerName
  /\ form.budgetRange = defaultValues.budgetRange

\* An auto-save timeout that is due writes to storage in this step.
AutoSaves == \E t \in timers : t.remaining = 0 /\ storage' = Stringify(t.snapshot) /\ timers' = timers \ {t}

\* C11: for every draft the form can hold, writing it to storage by auto-save
\* and rehydrating a fresh form from the stored value yields a draft equal to
\* the original in every field; a stored legacy key targetArea is never
\* applied to the draft.
C11_RoundTrip ==
  /\ [](/\ LoadForm(defaultValues, Stringify(form)) = form
        /\ LoadStorage(Stringify(form)) = Stringify(form)
        /\ "targetArea" \notin DOMAIN form)
  /\ [][AutoSaves => \A t \in timers : t.remaining = 0 => LoadForm(defaultValues, storage') = t.snapshot]_vars

\* The form mounted on a stored draft that has the legacy key, the user
\* changed a field, and auto-save wrote the draft: the stored value is the
\* JSON text of the form and no longer has the legacy key.
C11_Witness ==
  /\ loaded.kind = "json"
  /\ loaded.value.kind = "object"
  /\ "targetArea" \in DOMAIN loaded.value.props
  /\ edits = 1
  /\ storage = Stringify(form)
  /\ form # defaultValues
  /\ LoadForm(defaultValues, storage) = form

\* The component mounts in this step.
Mounts == ~mounted /\ mounted'

\* C12: when the stored draft cannot be parsed at mount, the error is caught,
\* the stored entry is removed and the form equals the defaults in every field.
C12_ParseFailureFallsBack ==
  [][(Mounts /\ storage.kind = "raw" /\ storage.len > 0) =>
       (storage' = NoEntry /\ form' = defaultValues)]_vars

\* The form has mounted on a stored text that is not JSON: the entry is gone
\* and the form holds the defaults.
C12_Witness ==
  /\ mounted
  /\ loaded.kind = "raw"
  /\ loaded.len > 0
  /\ storage = NoEntry
  /\ form = defaultValues
  /\ edits = 0

\* A draft is written to storage in this step.
Written == storage' # storage /\ storage' # NoEntry

\* C13: a write of the draft to storage happens only when 5000 ms have passed
\* since the most recent field change; every field change cancels the pending
\* timer and starts a new one, so at most one timer is pending at any time and
\* the value written is the draft as of the latest change.
C13_Debounce ==
  /\ [](Cardinality(timers) <= 1)
  /\ [][Written => (sinceChange >= 5000 /\ storage' = Stringify(form))]_vars
  /\ [][edits' # edits => timers' = {[snapshot |-> form', remaining |-> 5000]}]_vars

\* The user changed a field, 5000 ms passed, and the changed draft was
\* written over what storage held at mount.
C13_Witness ==
  /\ edits = 1
  /\ sinceChange = 5000
  /\ timers = {}
  /\ storage = Stringify(form)
  /\ storage # loaded
  /\ loaded.kind = "json"

\* The stored entry is removed in this step.
Removed == storage # NoEntry /\ storage' = NoEntry

\* C14 as stated: the persisted draft entry is deleted on successful
\* submission only; no other operation ever removes it.
C14_DeletedOnSuccessOnly ==
  [][Removed => \E i \in DOMAIN calls : Succeeds(i)]_vars

\* C14 as amended: the persisted draft entry is deleted on successful
\* submission and, at mount, when loading the stored value throws (the text
\* is not JSON, or it is the JSON text of null); no other operation removes it.
C14_Deletion ==
  [][Removed =>
       \/ \E i \in DOMAIN calls : Succeeds(i)
       \/ Mounts /\ storage.kind = "raw" /\ storage.len > 0
       \/ Mounts /\ storage = JsonText(Null)]_vars

\* The form has mounted on the stored text "null" and the entry is gone.
C14_Witness ==
  /\ mounted
  /\ loaded = JsonText(Null)
  /\ storage = NoEntry

\* C15: reset clears the success display state and the held e-mail address
\* and leaves the persisted draft entry and every field of the draft unchanged.
C15_ResetFrame ==
  [][(isSuccess /\ ~isSuccess') =>
       /\ submittedEmail' = EmptyStr
       /\ uiState' = "idle"
       /\ storage' = storage
       /\ form' = form]_vars

\* After a successful submit the success card has been left by reset while
\* storage holds an entry.
C15_Witness ==
  /\ Resolved # {}
  /\ mounted
  /\ ~isSuccess
  /\ submittedEmail = EmptyStr
  /\ storage.kind = "json"
  /\ form = defaultValues

\* The table rises strictly from each entry to the next.
TableIncreasing ==
  \A i \in 1..(Len(budgetSteps) - 1) : budgetSteps[i] < budgetSteps[i + 1]

\* The payload built from the filled draft with budget range (lo, hi).
PayloadOfRange(lo, hi) ==
  Payload([FilledDraft EXCEPT !.budgetRange = Arr(<<Num(lo), Num(hi)>>)])

\* For every ordered pair of indices of the table the payload carries
\* table[lo] as the minimum and table[hi] as the maximum, in that order.
ResolveOrdered ==
  \A lo \in 0..(Len(budgetSteps) - 1) : \A hi \in lo..(Len(budgetSteps) - 1) :
    LET payload == PayloadOfRange(lo, hi)
    IN  /\ payload.budget_min = Num(budgetSteps[lo + 1])
        /\ payload.budget_max = Num(budgetSteps[hi + 1])
        /\ payload.budget_min.n <= payload.budget_max.n

\* C16: the budget step table is monotonically increasing, so for all index
\* pairs (lo, hi) with 0 <= lo <= hi <= table.length-1 the resolved minimum
\* table[lo] is at most the resolved maximum table[hi]; this holds of every
\* pair of the table and of every request sent for such a pair.
C16_ResolveMonotonic ==
  /\ TableIncreasing
  /\ ResolveOrdered
  /\ \A j \in DOMAIN requests :
       LET range == calls[requests[j].call].values.budgetRange.items
       IN  (/\ range[1].kind = "number"
            /\ range[2].kind = "number"
            /\ 0 <= range[1].n
            /\ range[1].n <= range[2].n
            /\ range[2].n <= Len(budgetSteps) - 1)
           => /\ BodyValue(j, "budget_min") = Num(budgetSteps[range[1].n + 1])
              /\ BodyValue(j, "budget_max") = Num(budgetSteps[range[2].n + 1])
              /\ BodyValue(j, "budget_min").n <= BodyValue(j, "budget_max").n

\* A request was sent for the range from index 10 to the last index of the
\* table and carries 500000 and 10000000.
C16_Witness ==
  \E j \in DOMAIN requests :
    /\ calls[requests[j].call].values.budgetRange = Arr(<<Num(10), Num(100)>>)
    /\ BodyValue(j, "budget_min") = Num(500000)
    /\ BodyValue(j, "budget_max") = Num(10000000)

\* The requests whose response has not arrived.
InFlight == {j \in DOMAIN requests : requests[j].call \in Awaiting}

\* C17: at most one submit is pending at any time: while a submit is in
\* progress no second submit starts and no second request is in flight.
C17_SingleFlight ==
  /\ [](/\ Cardinality(Awaiting) <= 1
        /\ Cardinality(InFlight) <= 1
        /\ Awaiting # {} => (isSubmitting /\ ~CanSubmit))
  /\ [][Len(calls') > Len(calls) => (Awaiting = {} /\ ~isSubmitting)]_vars
  /\ [][Len(requests') > Len(requests) =>
          (InFlight = {} /\ Len(requests') = Len(requests) + 1)]_vars

\* A second submit is pending after the first one has completed.
C17_Witness ==
  /\ Len(calls) = 2
  /\ Awaiting = {2}
  /\ InFlight = {2}
  /\ isSubmitting

\* C18: provided the request eventually resolves or rejects, every submit
\* eventually leaves the submitting state; right after a failure the submit
\* button is enabled again, and after a success it is enabled by reset.
C18_SubmitTerminates ==
  /\ isSubmitting ~> ~isSubmitting
  /\ [][(\E i \in DOMAIN calls : Fails(i)) => CanSubmit']_vars
  /\ [][(\E i \in DOMAIN calls : Succeeds(i)) => (~isSubmitting' /\ isSuccess')]_vars
  /\ [][(isSuccess /\ ~isSuccess') => CanSubmit']_vars

\* A submit failed, the next one was started from the error state and
\* succeeded, and the form was reset.
C18_Witness ==
  /\ Len(calls) = 2
  /\ calls[1].outcome \in {"non-2xx", "network-error"}
  /\ calls[2].outcome = "resolved"
  /\ ~isSubmitting
  /\ ~isSuccess
  /\ CanSubmit

\* C19: after a successful submission storage holds no entry under the draft
\* key until the user next changes a field: no auto-save timer writes a draft
\* (the submitted values or the defaults) back to storage.
C19_NoWriteBackAfterSuccess ==
  cleared => storage = NoEntry

\* The values of the budget step table.
TableValues == {budgetSteps[i] : i \in DOMAIN budgetSteps}

\* C20: every request sent carries both budget_min and budget_max, each a
\* value of the step table, with budget_min <= budget_max.
C20_RequestBudget ==
  \A j \in DOMAIN requests :
    LET props == requests[j].body.value.props
    IN  /\ "budget_min" \in DOMAIN props
        /\ "budget_max" \in DOMAIN props
        /\ props.budget_min.kind = "number"
        /\ props.budget_max.kind = "number"
        /\ props.budget_min.n \in TableValues
        /\ props.budget_max.n \in TableValues
        /\ props.budget_min.n <= props.budget_max.n

\* C21: the default budget range [10, 38] resolves through the step table to
\* a minimum of 500000 and a maximum of 1200000: whenever the form holds the
\* default range, the payload built from it carries these two values.
C21_DefaultBudget ==
  form.budgetRange = defaultValues.budgetRange =>
    /\ form.budgetRange = Arr(<<Num(10), Num(38)>>)
    /\ Payload(form).budget_min = Num(500000)
    /\ Payload(form).budget_max = Num(1200000)

====
